---- MODULE Spec2Model ----
(***************************************************************************)
(* RTP depacketizer for the VP9 payload format (libavformat/rtpdec_vp9.c). *)
(* The model follows vp9_handle_packet statement by statement: the drop of *)
(* a stale buffer, the length and marker checks, the walk over the         *)
(* variable-length payload descriptor, and the reassembly of fragments     *)
(* into one frame through a dynamic buffer.                                *)
(***************************************************************************)
EXTENDS Integers, Sequences, FiniteSets, TLC

VARIABLES
    rtp_vp9_ctx,   \* the PayloadContext: [buf, timestamp]
    pc,            \* position of the caller: "ready" or "returned"
    call,          \* the call that has just returned: its arguments, what the parser makes
                   \* of its packet (valid, payload) and the context before it
    res,           \* its return value
    pkt,           \* the AVPacket it filled
    run,           \* fragments of the frame being sent since the context was last seen Idle
    asm,           \* what is known of the fragments whose bytes are in the buffer
    streams,       \* the PayloadContext of each of two streams handled side by side
    alone,         \* the PayloadContext each of them would have, were it the only stream
    slast,         \* the last call made on one of the two streams
    parse          \* one call of vp9_handle_packet followed statement by statement

vars == <<rtp_vp9_ctx, pc, call, res, pkt, run, asm, streams, alone, slast, parse>>

\* the variables of the two streams
svars == <<streams, alone, slast>>

---------------------------------------------------------------------------
(* Bounds of the model *)

\* longest packet with a one-byte descriptor
MaxPktLen == 3
\* longest frame buffer
MaxBufLen == 3
\* number of distinct RTP timestamps
NumTimestamps == 2
\* longest frame buffer of the two streams handled side by side
StreamBufLen == 2
\* number of distinct RTP sequence numbers
NumSeq == 2

---------------------------------------------------------------------------
(* Constants of the program *)

RTP_VP9_DESC_REQUIRED_SIZE == 1
RTP_FLAG_MARKER == 2

SUCCESS == "0"
AVERROR_INVALIDDATA == "AVERROR_INVALIDDATA"
AVERROR_PATCHWELCOME == "AVERROR_PATCHWELCOME"
AVERROR_EAGAIN == "AVERROR(EAGAIN)"
AVERROR_ENOMEM == "AVERROR(ENOMEM)"

\* x & m, as a truth value, for a mask m with one bit set
HasBit(x, m) == (x \div m) % 2 = 1

---------------------------------------------------------------------------
(* The dynamic buffer and the output packet *)

\* rtp_vp9_ctx->buf == NULL
NullBuf == [open |-> FALSE, data |-> <<>>]

\* a packet that carries no frame
NoPkt == [set |-> FALSE, data |-> <<>>]

ffio_free_dyn_buf(s) == NullBuf

\* on failure *s stays NULL
avio_open_dyn_buf(ok) ==
    IF ok THEN [r |-> SUCCESS, s |-> [open |-> TRUE, data |-> <<>>]]
          ELSE [r |-> AVERROR_ENOMEM, s |-> NullBuf]

avio_write(s, bytes) == [s EXCEPT !.data = @ \o bytes]

\* moves the bytes of the buffer into the packet; the buffer pointer is NULL
\* afterwards whether or not the packet could be made
ff_rtp_finalize_packet(s, ok) ==
    IF ok THEN [r |-> SUCCESS, p |-> [set |-> TRUE, data |-> s.data], s |-> NullBuf]
          ELSE [r |-> AVERROR_ENOMEM, p |-> NoPkt, s |-> NullBuf]

---------------------------------------------------------------------------
(* The payload descriptor *)

\* buf[k] for the cursor c; a read past the end of the packet is recorded in
\* c.hi by Rd and is given the value 0 here
At(b, c, k) == IF c.pos + k + 1 <= Len(b) THEN b[c.pos + k + 1] ELSE 0

\* the cursor after reading n bytes at its position (hi: one past the highest index read)
Rd(c, n) == IF n = 0 THEN c ELSE [c EXCEPT !.hi = IF c.pos + n > @ THEN c.pos + n ELSE @]

\* buf += n; len -= n
Adv(c, n) == [c EXCEPT !.pos = @ + n, !.len = @ - n]

\* return e
Fail(c, e) == [c EXCEPT !.ret = e]

\* a variant that takes the end-of-frame flag from the B bit
DecodeRequired_EndFromB(b) ==
    [has_pic_id                |-> HasBit(b[1], 128),
     inter_picture_layer_frame |-> HasBit(b[1], 64),
     has_layer_idc             |-> HasBit(b[1], 32),
     has_ref_idc               |-> HasBit(b[1], 16),
     first_fragment            |-> HasBit(b[1], 8),
     last_fragment             |-> HasBit(b[1], 8),
     has_ss_data               |-> HasBit(b[1], 2)]

\* the required first byte
DecodeRequired(b) ==
    [has_pic_id                |-> HasBit(b[1], 128),
     inter_picture_layer_frame |-> HasBit(b[1], 64),
     has_layer_idc             |-> HasBit(b[1], 32),
     has_ref_idc               |-> HasBit(b[1], 16),
     first_fragment            |-> HasBit(b[1], 8),
     last_fragment             |-> HasBit(b[1], 4),
     has_ss_data               |-> HasBit(b[1], 2)]

\* a variant that takes every picture ID to be one byte long
DecodePictureId_OneByte(b, d, c) ==
    IF c.ret # "" \/ ~d.has_pic_id THEN c
    ELSE Adv(Rd(c, 1), 1)

\* a variant that reads a 2-byte picture ID without the check that 2 bytes are left
DecodePictureId_NoLengthCheck(b, d, c) ==
    IF c.ret # "" \/ ~d.has_pic_id THEN c
    ELSE IF HasBit(At(b, c, 0), 128) THEN Adv(Rd(c, 2), 2)
         ELSE Adv(Rd(c, 1), 1)

\* the 1-byte or 2-byte picture ID
DecodePictureId(b, d, c) ==
    IF c.ret # "" \/ ~d.has_pic_id THEN c
    ELSE IF HasBit(At(b, c, 0), 128)
         THEN IF c.len < 2 THEN Fail(Rd(c, 1), AVERROR_INVALIDDATA)
              ELSE Adv(Rd(c, 2), 2)
         ELSE Adv(Rd(c, 1), 1)

\* the layer indices and, in non-flexible mode, TL0PICIDX
DecodeLayerIndices(b, d, c) ==
    IF c.ret # "" \/ ~d.has_layer_idc THEN c
    ELSE IF c.len < 1 THEN Fail(c, AVERROR_INVALIDDATA)
    ELSE LET c1 == Adv(Rd(c, 1), 1)
         IN IF d.has_ref_idc THEN c1
            ELSE IF c1.len < 1 THEN Fail(c1, AVERROR_INVALIDDATA)
            ELSE Adv(c1, 1)

\* the loop over up to 3 reference indices, from iteration i
RECURSIVE RefIdcLoop(_, _, _)
RefIdcLoop(b, c, i) ==
    IF i >= 3 THEN c
    ELSE IF c.len < 1 THEN Fail(c, AVERROR_INVALIDDATA)
    ELSE LET p_diff   == At(b, c, 0) \div 2
             has_more == At(b, c, 0) % 2
         IN IF p_diff = 0 THEN Fail(Rd(c, 1), AVERROR_INVALIDDATA)
            ELSE IF has_more = 0 THEN Adv(Rd(c, 1), 1)
            ELSE RefIdcLoop(b, Adv(Rd(c, 1), 1), i + 1)

\* a variant that looks for reference indices whenever F is set, P set or not
DecodeReferenceIndices_IgnoreP(b, d, c) ==
    IF c.ret # "" \/ ~d.has_ref_idc THEN c
    ELSE RefIdcLoop(b, c, 0)

DecodeReferenceIndices(b, d, c) ==
    IF c.ret # "" \/ ~(d.has_ref_idc /\ d.inter_picture_layer_frame) THEN c
    ELSE RefIdcLoop(b, c, 0)

\* the loop over the resolutions of n_s + 1 spatial layers, from iteration i
RECURSIVE ResolutionLoop(_, _, _)
ResolutionLoop(c, n_s, i) ==
    IF i >= n_s + 1 THEN c
    ELSE ResolutionLoop(Adv(Rd(c, 4), 4), n_s, i + 1)

\* the loop over the n_g pictures of the picture group, from iteration i
RECURSIVE PictureGroupLoop(_, _, _, _)
PictureGroupLoop(b, c, n_g, i) ==
    IF i >= n_g THEN c
    ELSE IF c.len < 1 THEN Fail(c, AVERROR_INVALIDDATA)
    ELSE LET r  == (At(b, c, 0) \div 4) % 4
             c1 == Adv(Rd(c, 1), 1)
         IN IF c1.len < r THEN Fail(c1, AVERROR_INVALIDDATA)
            ELSE PictureGroupLoop(b, Adv(Rd(c1, r), r), n_g, i + 1)

\* a variant that looks at N_S only after the resolutions and the picture group
DecodeScalabilityStructure_LateCheck(b, d, c) ==
    IF c.ret # "" \/ ~d.has_ss_data THEN c
    ELSE IF c.len < 1 THEN Fail(c, AVERROR_INVALIDDATA)
    ELSE LET n_s == At(b, c, 0) \div 32
             y   == HasBit(At(b, c, 0), 16)
             g   == HasBit(At(b, c, 0), 8)
             c1  == Adv(Rd(c, 1), 1)
             c2  == IF ~y THEN c1
                    ELSE IF c1.len < 4 * (n_s + 1) THEN Fail(c1, AVERROR_INVALIDDATA)
                    ELSE ResolutionLoop(c1, n_s, 0)
             c3  == IF c2.ret # "" \/ ~g THEN c2
                    ELSE IF c2.len < 1 THEN Fail(c2, AVERROR_INVALIDDATA)
                    ELSE PictureGroupLoop(b, Adv(Rd(c2, 1), 1), At(b, c2, 0), 0)
         IN IF c3.ret = "" /\ n_s > 0 THEN Fail(c3, AVERROR_PATCHWELCOME) ELSE c3

\* the scalability structure
DecodeScalabilityStructure(b, d, c) ==
    IF c.ret # "" \/ ~d.has_ss_data THEN c
    ELSE IF c.len < 1 THEN Fail(c, AVERROR_INVALIDDATA)
    ELSE LET n_s == At(b, c, 0) \div 32
             y   == HasBit(At(b, c, 0), 16)
             g   == HasBit(At(b, c, 0), 8)
             c1  == Adv(Rd(c, 1), 1)
             c2  == IF ~y THEN c1
                    ELSE IF c1.len < 4 * (n_s + 1) THEN Fail(c1, AVERROR_INVALIDDATA)
                    ELSE ResolutionLoop(c1, n_s, 0)
             c3  == IF c2.ret # "" \/ ~g THEN c2
                    ELSE IF c2.len < 1 THEN Fail(c2, AVERROR_INVALIDDATA)
                    ELSE PictureGroupLoop(b, Adv(Rd(c2, 1), 1), At(b, c2, 0), 0)
         IN IF n_s > 0 THEN Fail(c1, AVERROR_PATCHWELCOME) ELSE c3

\* a variant without the check that a byte of payload is left
ParseDescriptor_NoPayloadCheck(b, d) ==
    LET c0 == [pos |-> RTP_VP9_DESC_REQUIRED_SIZE,
               len |-> Len(b) - RTP_VP9_DESC_REQUIRED_SIZE,
               ret |-> "", hi |-> 1]
    IN DecodeScalabilityStructure(b, d,
         DecodeReferenceIndices(b, d,
           DecodeLayerIndices(b, d,
             DecodePictureId(b, d, c0))))

\* the walk over the extensions of the descriptor, and the check that a
\* byte of payload is left
ParseDescriptor(b, d) ==
    LET c0 == [pos |-> RTP_VP9_DESC_REQUIRED_SIZE,
               len |-> Len(b) - RTP_VP9_DESC_REQUIRED_SIZE,
               ret |-> "", hi |-> 1]
        c4 == DecodeScalabilityStructure(b, d,
                DecodeReferenceIndices(b, d,
                  DecodeLayerIndices(b, d,
                    DecodePictureId(b, d, c0))))
    IN IF c4.ret = "" /\ c4.len < 1 THEN Fail(c4, AVERROR_INVALIDDATA) ELSE c4

\* the bytes that follow the descriptor
Payload(b, c) == SubSeq(b, c.pos + 1, c.pos + c.len)

---------------------------------------------------------------------------
(* vp9_handle_packet *)

\* what a call leaves behind: the context, the return value, the packet
Return(ctx, r, p) == [ctx |-> ctx, res |-> r, pkt |-> p]

\* a variant that never drops the buffer
DropStale_Never(ctx, ts) == ctx

\* a variant that drops the buffer whatever the timestamp
DropStale_Always(ctx, ts) ==
    IF ctx.buf.open THEN [ctx EXCEPT !.buf = ffio_free_dyn_buf(ctx.buf)] ELSE ctx

\* a variant that adopts the new timestamp and keeps the bytes
DropStale_KeepBytes(ctx, ts) ==
    IF ctx.buf.open /\ ctx.timestamp # ts THEN [ctx EXCEPT !.timestamp = ts] ELSE ctx

\* a variant with the comparison of the timestamps inverted
DropStale_OnEqual(ctx, ts) ==
    IF ctx.buf.open /\ ctx.timestamp = ts
    THEN [ctx EXCEPT !.buf = ffio_free_dyn_buf(ctx.buf)]
    ELSE ctx

\* lines 55-57: drop data of previous packets in case of a non-continuous stream
DropStale(ctx, ts) ==
    IF ctx.buf.open /\ ctx.timestamp # ts
    THEN [ctx EXCEPT !.buf = ffio_free_dyn_buf(ctx.buf)]
    ELSE ctx

\* a variant that does not record the timestamp of the first fragment
StartFrame_NoTimestamp(ctx, d, ts, alloc) ==
    IF ctx.buf.open THEN Return(ctx, "", NoPkt)
    ELSE IF d.first_fragment
         THEN LET o == avio_open_dyn_buf(alloc # "open")
              IN IF o.r # SUCCESS THEN Return(ctx, o.r, NoPkt)
                 ELSE Return([ctx EXCEPT !.buf = o.s], "", NoPkt)
         ELSE Return(ctx, AVERROR_EAGAIN, NoPkt)

\* a variant that opens the buffer for any fragment
StartFrame_AnyFragment(ctx, d, ts, alloc) ==
    IF ctx.buf.open THEN Return(ctx, "", NoPkt)
    ELSE LET o == avio_open_dyn_buf(alloc # "open")
         IN IF o.r # SUCCESS THEN Return(ctx, o.r, NoPkt)
            ELSE Return([buf |-> o.s, timestamp |-> ts], "", NoPkt)

\* a variant that opens a new buffer for every packet with B set
StartFrame_RestartOnB(ctx, d, ts, alloc) ==
    IF d.first_fragment
    THEN LET o == avio_open_dyn_buf(alloc # "open")
         IN IF o.r # SUCCESS THEN Return(ctx, o.r, NoPkt)
            ELSE Return([buf |-> o.s, timestamp |-> ts], "", NoPkt)
    ELSE IF ctx.buf.open THEN Return(ctx, "", NoPkt)
    ELSE Return(ctx, AVERROR_EAGAIN, NoPkt)

\* a variant that does not start a frame with the timestamp the context
\* holds, taking it for a repetition of the frame emitted last
StartFrame_SkipRepeated(ctx, d, ts, alloc) ==
    IF ctx.buf.open THEN Return(ctx, "", NoPkt)
    ELSE IF d.first_fragment /\ ts # ctx.timestamp
         THEN LET o == avio_open_dyn_buf(alloc # "open")
              IN IF o.r # SUCCESS THEN Return(ctx, o.r, NoPkt)
                 ELSE Return([buf |-> o.s, timestamp |-> ts], "", NoPkt)
         ELSE Return(ctx, AVERROR_EAGAIN, NoPkt)

\* lines 301-314: start frame buffering with a new dynamic buffer
StartFrame(ctx, d, ts, alloc) ==
    IF ctx.buf.open THEN Return(ctx, "", NoPkt)
    ELSE IF d.first_fragment
         THEN LET o == avio_open_dyn_buf(alloc # "open")
              IN IF o.r # SUCCESS THEN Return(ctx, o.r, NoPkt)
                 ELSE Return([buf |-> o.s, timestamp |-> ts], "", NoPkt)
         ELSE Return(ctx, AVERROR_EAGAIN, NoPkt)

\* a variant that keeps only the last fragment written
WriteFragment_Overwrite(ctx, d, bytes, alloc) ==
    LET w == [ctx EXCEPT !.buf = [open |-> TRUE, data |-> bytes]]
    IN IF ~d.last_fragment THEN Return(w, AVERROR_EAGAIN, NoPkt)
       ELSE LET f == ff_rtp_finalize_packet(w.buf, alloc # "finalize")
            IN Return([w EXCEPT !.buf = f.s], f.r, f.p)

\* a variant that finalizes a copy of the buffer pointer, so that the
\* context keeps the buffer it had
WriteFragment_FinalizeCopy(ctx, d, bytes, alloc) ==
    LET w == [ctx EXCEPT !.buf = avio_write(ctx.buf, bytes)]
    IN IF ~d.last_fragment THEN Return(w, AVERROR_EAGAIN, NoPkt)
       ELSE LET f == ff_rtp_finalize_packet(w.buf, alloc # "finalize")
            IN Return(w, f.r, f.p)

\* a variant that returns 0 for a fragment that does not end its frame
WriteFragment_ZeroOnAppend(ctx, d, bytes, alloc) ==
    LET w == [ctx EXCEPT !.buf = avio_write(ctx.buf, bytes)]
    IN IF ~d.last_fragment THEN Return(w, SUCCESS, NoPkt)
       ELSE LET f == ff_rtp_finalize_packet(w.buf, alloc # "finalize")
            IN Return([w EXCEPT !.buf = f.s], f.r, f.p)

\* a variant that waits for the marker of a later packet before it finalizes
WriteFragment_NeverFinalize(ctx, d, bytes, alloc) ==
    Return([ctx EXCEPT !.buf = avio_write(ctx.buf, bytes)], AVERROR_EAGAIN, NoPkt)

\* lines 316-328: write the fragment, and finalize the frame on the last one
WriteFragment(ctx, d, bytes, alloc) ==
    LET w == [ctx EXCEPT !.buf = avio_write(ctx.buf, bytes)]
    IN IF ~d.last_fragment THEN Return(w, AVERROR_EAGAIN, NoPkt)
       ELSE LET f == ff_rtp_finalize_packet(w.buf, alloc # "finalize")
            IN Return([w EXCEPT !.buf = f.s], f.r, f.p)

\* a variant without the comparison of the E bit with the marker
HandleAfterDrop_NoMarkerCheck(ctx, b, ts, flags, alloc) ==
    IF Len(b) < RTP_VP9_DESC_REQUIRED_SIZE + 1
    THEN Return(ctx, AVERROR_INVALIDDATA, NoPkt)
    ELSE LET d == DecodeRequired(b)
             c == ParseDescriptor(b, d)
         IN IF c.ret # "" THEN Return(ctx, c.ret, NoPkt)
            ELSE LET st == StartFrame(ctx, d, ts, alloc)
                 IN IF st.res # "" THEN st
                    ELSE WriteFragment(st.ctx, d, Payload(b, c), alloc)

\* a variant that writes what is left of the packet into the open buffer
\* before it returns the error of the parser
HandleAfterDrop_WriteRejected(ctx, b, ts, flags, alloc) ==
    IF Len(b) < RTP_VP9_DESC_REQUIRED_SIZE + 1
    THEN Return(ctx, AVERROR_INVALIDDATA, NoPkt)
    ELSE LET d     == DecodeRequired(b)
             rtp_m == HasBit(flags, RTP_FLAG_MARKER)
         IN IF d.last_fragment # rtp_m
            THEN Return(ctx, AVERROR_INVALIDDATA, NoPkt)
            ELSE LET c == ParseDescriptor(b, d)
                 IN IF c.ret # ""
                    THEN Return(IF ctx.buf.open
                                THEN [ctx EXCEPT !.buf = avio_write(ctx.buf, Payload(b, c))]
                                ELSE ctx, c.ret, NoPkt)
                    ELSE LET st == StartFrame(ctx, d, ts, alloc)
                         IN IF st.res # "" THEN st
                            ELSE WriteFragment(st.ctx, d, Payload(b, c), alloc)

\* lines 59-328: the function after the drop of a stale buffer
HandleAfterDrop(ctx, b, ts, flags, alloc) ==
    IF Len(b) < RTP_VP9_DESC_REQUIRED_SIZE + 1
    THEN Return(ctx, AVERROR_INVALIDDATA, NoPkt)
    ELSE LET d     == DecodeRequired(b)
             rtp_m == HasBit(flags, RTP_FLAG_MARKER)
         IN IF d.last_fragment # rtp_m
            THEN Return(ctx, AVERROR_INVALIDDATA, NoPkt)
            ELSE LET c == ParseDescriptor(b, d)
                 IN IF c.ret # "" THEN Return(ctx, c.ret, NoPkt)
                    ELSE LET st == StartFrame(ctx, d, ts, alloc)
                         IN IF st.res # "" THEN st
                            ELSE WriteFragment(st.ctx, d, Payload(b, c), alloc)

\* a variant that also drops the buffer when the sequence number is not the first one
vp9_handle_packet_SeqGap(ctx, b, ts, seq, flags, alloc) ==
    LET c0 == IF seq # 0 /\ ctx.buf.open
              THEN [ctx EXCEPT !.buf = ffio_free_dyn_buf(ctx.buf)]
              ELSE DropStale(ctx, ts)
        r  == HandleAfterDrop(c0, b, ts, flags, alloc)
    IN [ctx |-> r.ctx, res |-> r.res, pkt |-> r.pkt, timestamp |-> ts]

\* the whole function. seq is a parameter that the function never reads, and
\* *timestamp is never written: the caller stamps the frame with the value it
\* passed in
vp9_handle_packet(ctx, b, ts, seq, flags, alloc) ==
    LET r == HandleAfterDrop(DropStale(ctx, ts), b, ts, flags, alloc)
    IN [ctx |-> r.ctx, res |-> r.res, pkt |-> r.pkt, timestamp |-> ts]

\* a variant that frees nothing
vp9_close_context_Leak(ctx) == ctx

\* vp9_close_context
vp9_close_context(ctx) == [ctx EXCEPT !.buf = ffio_free_dyn_buf(ctx.buf)]

---------------------------------------------------------------------------
(* The packets the transport layer delivers *)

\* descriptors with no extension: none, E, B, B+E
DescBytes == {0, 4, 8, 12}

\* bytes of codec payload
PayBytes == {170, 85}

\* the sequences over S of length at most n
RECURSIVE SeqsUpTo(_, _)
SeqsUpTo(S, n) ==
    IF n = 0 THEN {<<>>}
    ELSE LET T == SeqsUpTo(S, n - 1)
         IN T \cup {Append(q, x) : q \in {q \in T : Len(q) = n - 1}, x \in S}

\* packets whose descriptor is the required byte alone
SimplePackets == {<<x>> \o q : x \in DescBytes, q \in SeqsUpTo(PayBytes, MaxPktLen - 1)}

\* packets whose descriptor has extensions
FullPackets ==
    { <<2, 32, 170>>,                 \* V, N_S = 1
      <<2, 184, 170>>,                \* V, N_S = 5, Y and G set, too few bytes for them
      <<14, 0, 170>>,                 \* B E V, N_S = 0
      <<10, 16, 1, 64, 0, 240, 85>>,  \* B V, Y: one resolution
      <<6, 8, 2, 4, 1, 0, 170>>,      \* E V, G: N_G = 2, R = 1 and R = 0
      <<6, 8, 1, 12, 1, 2, 3, 85>>,   \* E V, G: N_G = 1, R = 3
      <<136, 5, 170>>,                \* I B, 7-bit picture ID
      <<140, 133, 1, 170>>,           \* I B E, 15-bit picture ID
      <<44, 34, 7, 170>>,             \* L B E, TL0PICIDX
      <<48, 34, 85>>,                 \* L F, no TL0PICIDX
      <<92, 3, 2, 170>>,              \* P F B E, two P_DIFF
      <<84, 3, 3, 3, 85>>,            \* P F E, three P_DIFF
      <<92, 0, 170>>,                 \* P F B E, P_DIFF = 0
      <<88, 3, 1, 170>>,              \* P F B, second P_DIFF = 0
      <<28, 0>>,                      \* F B E without P
      <<76, 0>>,                      \* P B E without F
      <<254, 5, 34, 2, 0, 170>>,      \* I P L F B E V
      <<142, 5, 32>>,                 \* I B E V, N_S = 1, nothing after the SS byte
      <<142, 133, 1, 64, 170>>,       \* I B E V, 15-bit picture ID, N_S = 2
      <<126, 34, 3, 2, 32>>,          \* P L F B E V, two P_DIFF, N_S = 1
      <<94, 0, 32, 170>> }            \* P F B E V, P_DIFF = 0 before N_S = 1

\* the packets above and every truncation of them
ExtPackets == UNION {{SubSeq(q, 1, n) : n \in 0..Len(q)} : q \in FullPackets}

Packets == SimplePackets \cup ExtPackets

Timestamps == 0..(NumTimestamps - 1)
SeqNums == 0..(NumSeq - 1)
Flags == {0, RTP_FLAG_MARKER}

\* the allocation that fails during a call, if any
AllocFailures == {"none", "open", "finalize"}

---------------------------------------------------------------------------
(* The frame a sender is transmitting, as the receiver's caller sees it *)

\* the packet passes every validation of vp9_handle_packet
WellFormed(b, flags) ==
    /\ Len(b) >= 2
    /\ DecodeRequired(b).last_fragment = HasBit(flags, RTP_FLAG_MARKER)
    /\ ParseDescriptor(b, DecodeRequired(b)).ret = ""

\* its bytes after the descriptor
PostDescriptor(b) == Payload(b, ParseDescriptor(b, DecodeRequired(b)))

\* the two, for every packet the model sends
PacketValid == [b \in Packets |-> [flags \in Flags |-> WellFormed(b, flags)]]
PacketPayload ==
    [b \in Packets |->
        IF \E flags \in Flags : WellFormed(b, flags) THEN PostDescriptor(b) ELSE <<>>]

NoRun == [n |-> 0, bytes |-> <<>>, ts |-> 0]

\* the fragment's place in a frame sent in order, with one timestamp, to a
\* context that had no buffer when the first fragment came
FragPlace(r, before, b, ts, flags) ==
    IF ~PacketValid[b][flags] THEN "none"
    ELSE IF r.n > 0 /\ ts = r.ts
         THEN IF DecodeRequired(b).last_fragment THEN "last" ELSE "middle"
         ELSE IF ~before.buf.open /\ DecodeRequired(b).first_fragment
                 /\ ~DecodeRequired(b).last_fragment
              THEN "first" ELSE "none"

\* the fragments sent so far; a call in which an allocation failed ends the run
NextRun(r, place, b, ts, failed) ==
    IF failed # "none" THEN NoRun
    ELSE CASE place = "first"  -> [n |-> 1, bytes |-> PacketPayload[b], ts |-> ts]
           [] place = "middle" -> [r EXCEPT !.n = @ + 1, !.bytes = @ \o PacketPayload[b]]
           [] OTHER            -> NoRun

NoAsm == [started |-> FALSE, ended |-> FALSE, one_ts |-> TRUE, ts |-> 0]

\* the fragments in the buffer, or in the frame emitted, once the call has
\* returned r: those that c0, the context after the drop of a stale buffer,
\* still held, and the packet of the call if its bytes were written.
\* started: the fragment that opened the buffer had B set; ended: a
\* fragment had E set; ts: the timestamp of the packet that opened the
\* buffer; one_ts: every fragment came with that timestamp
AsmAfter(a, c0, r, b, ts) ==
    LET kept  == IF c0.buf.open THEN a ELSE NoAsm
        bytes == IF r.pkt.set THEN r.pkt.data ELSE r.ctx.buf.data
        wrote == (r.pkt.set \/ r.ctx.buf.open) /\ Len(bytes) > Len(c0.buf.data)
    IN IF ~wrote THEN kept
       ELSE IF ~c0.buf.open
            THEN [started |-> HasBit(b[1], 8), ended |-> HasBit(b[1], 4),
                  one_ts |-> TRUE, ts |-> ts]
            ELSE [kept EXCEPT !.ended = @ \/ HasBit(b[1], 4),
                              !.one_ts = @ /\ ts = kept.ts]

---------------------------------------------------------------------------
(* The state machine *)

\* the call before its first statement: the arguments, the context, and
\* the locals of the function. loops counts the iterations of its loops
NoParse ==
    [at |-> "idle", b |-> <<>>, flags |-> 0, ts |-> 0, alloc |-> "none",
     entry |-> [buf |-> NullBuf, timestamp |-> 0],
     ctx |-> [buf |-> NullBuf, timestamp |-> 0],
     pos |-> 0, len |-> 0, i |-> 0, j |-> 0,
     n_s |-> 0, y |-> FALSE, g |-> FALSE, n_g |-> 0, r |-> 0,
     loops |-> 0, res |-> "", pkt |-> NoPkt]

\* the streams handled side by side, and the packets they receive
Streams == {"s0", "s1"}
StreamPackets ==
    {<<x, y>> : x \in DescBytes, y \in PayBytes} \cup {<<8>>, <<2, 32, 170>>}

NoStreamCall ==
    [op |-> "none", st |-> "", before |-> [i \in Streams |-> [buf |-> NullBuf, timestamp |-> 0]],
     res |-> "", pkt |-> NoPkt, res_alone |-> "", pkt_alone |-> NoPkt]

NoCall == [op |-> "none", buf |-> <<>>, timestamp |-> 0, seq |-> 0, flags |-> 0,
           timestamp_out |-> 0, failed |-> "none", before |-> [buf |-> NullBuf, timestamp |-> 0],
           place |-> "none", run |-> NoRun, kept |-> NoAsm, asm |-> NoAsm,
           valid |-> FALSE, payload |-> <<>>]

\* a stream is opened: the context is zeroed, vp9_init leaves it so
Init ==
    /\ rtp_vp9_ctx = [buf |-> NullBuf, timestamp |-> 0]
    /\ pc = "ready"
    /\ call = NoCall
    /\ res = ""
    /\ pkt = NoPkt
    /\ run = NoRun
    /\ asm = NoAsm
    /\ streams = [i \in Streams |-> [buf |-> NullBuf, timestamp |-> 0]]
    /\ alone = [i \in Streams |-> [buf |-> NullBuf, timestamp |-> 0]]
    /\ slast = NoStreamCall
    /\ parse = NoParse

\* the transport layer hands one packet to vp9_handle_packet
HandlePacket ==
    /\ pc = "ready"
    /\ \E b \in Packets, ts \in Timestamps, seq \in SeqNums, flags \in Flags,
          alloc \in AllocFailures :
         \* an allocation can fail only in a call that gets as far as the buffer
         /\ alloc # "none" => PacketValid[b][flags]
         /\ \E r \in {vp9_handle_packet(rtp_vp9_ctx, b, ts, seq, flags, alloc)} :
            \E place \in {FragPlace(run, rtp_vp9_ctx, b, ts, flags)} :
             LET failed == IF r.res = AVERROR_ENOMEM THEN alloc ELSE "none"
                 c0     == DropStale(rtp_vp9_ctx, ts)
                 after  == AsmAfter(asm, c0, r, b, ts)
             IN /\ alloc # "none" => r.res = AVERROR_ENOMEM
                /\ Len(r.ctx.buf.data) <= MaxBufLen
                /\ Len(r.pkt.data) <= MaxBufLen
                /\ rtp_vp9_ctx' = r.ctx
                /\ res' = r.res
                /\ pkt' = r.pkt
                /\ call' = [op |-> "handle", buf |-> b, timestamp |-> ts, seq |-> seq,
                            flags |-> flags, timestamp_out |-> r.timestamp,
                            failed |-> failed, before |-> rtp_vp9_ctx,
                            place |-> place, run |-> run,
                            kept |-> IF c0.buf.open THEN asm ELSE NoAsm,
                            asm |-> after,
                            valid |-> PacketValid[b][flags],
                            payload |-> PacketPayload[b]]
                /\ run' = NextRun(run, place, b, ts, failed)
                /\ asm' = IF r.ctx.buf.open THEN after ELSE NoAsm
    /\ pc' = "returned"
    /\ UNCHANGED <<svars, parse>>

\* the stream is torn down, or the caller gives up on a stalled frame
CloseContext ==
    /\ pc = "ready"
    /\ rtp_vp9_ctx' = vp9_close_context(rtp_vp9_ctx)
    /\ call' = [NoCall EXCEPT !.op = "close", !.before = rtp_vp9_ctx]
    /\ res' = ""
    /\ pkt' = NoPkt
    /\ run' = NoRun
    /\ asm' = IF vp9_close_context(rtp_vp9_ctx).buf.open THEN asm ELSE NoAsm
    /\ pc' = "returned"
    /\ UNCHANGED <<svars, parse>>

\* the caller takes the return value and the packet, and is ready for the next call
Deliver ==
    /\ pc = "returned"
    /\ pc' = "ready"
    /\ call' = NoCall
    /\ res' = ""
    /\ pkt' = NoPkt
    /\ UNCHANGED <<rtp_vp9_ctx, run, asm>>
    /\ UNCHANGED <<svars, parse>>

Next == HandlePacket \/ CloseContext \/ Deliver

Spec == Init /\ [][Next]_vars

---------------------------------------------------------------------------
(* Two streams, each with its PayloadContext, handled in any interleaving *)

\* a variant in which the handlers keep the context in one static
\* variable, whatever stream they are called for
StoreContext_Static(ctxs, st, c) == [i \in DOMAIN ctxs |-> c]

\* the handlers write through the pointer to the context of their stream
StoreContext(ctxs, st, c) == [ctxs EXCEPT ![st] = c]

\* a packet of stream st is handled
StreamHandle(st) ==
    /\ slast.op = "none"
    /\ \E b \in StreamPackets, ts \in Timestamps, seq \in SeqNums, flags \in Flags,
          alloc \in AllocFailures :
         \E r \in {vp9_handle_packet(streams[st], b, ts, seq, flags, alloc)} :
         \E a \in {vp9_handle_packet(alone[st], b, ts, seq, flags, alloc)} :
            /\ alloc # "none" => a.res = AVERROR_ENOMEM
            /\ Len(a.ctx.buf.data) <= StreamBufLen
            /\ Len(a.pkt.data) <= StreamBufLen
            /\ streams' = StoreContext(streams, st, r.ctx)
            /\ alone' = [alone EXCEPT ![st] = a.ctx]
            /\ slast' = [op |-> "handle", st |-> st, before |-> streams,
                         res |-> r.res, pkt |-> r.pkt,
                         res_alone |-> a.res, pkt_alone |-> a.pkt]
    /\ UNCHANGED <<rtp_vp9_ctx, pc, call, res, pkt, run, asm, parse>>

\* stream st is torn down
StreamClose(st) ==
    /\ slast.op = "none"
    /\ streams' = StoreContext(streams, st, vp9_close_context(streams[st]))
    /\ alone' = [alone EXCEPT ![st] = vp9_close_context(alone[st])]
    /\ slast' = [NoStreamCall EXCEPT !.op = "close", !.st = st, !.before = streams]
    /\ UNCHANGED <<rtp_vp9_ctx, pc, call, res, pkt, run, asm, parse>>

\* the caller takes the result of the call
StreamDeliver ==
    /\ slast.op # "none"
    /\ slast' = NoStreamCall
    /\ UNCHANGED <<streams, alone>>
    /\ UNCHANGED <<rtp_vp9_ctx, pc, call, res, pkt, run, asm, parse>>

NextStreams ==
    \/ \E st \in Streams : StreamHandle(st)
    \/ \E st \in Streams : StreamClose(st)
    \/ StreamDeliver

SpecStreams == Init /\ [][NextStreams]_vars

---------------------------------------------------------------------------
(* One call of vp9_handle_packet, statement by statement *)

\* the contexts the call is made on: without buffer, and with a buffer in progress
ParseContexts ==
    { [buf |-> NullBuf, timestamp |-> 0],
      [buf |-> [open |-> TRUE, data |-> <<170>>], timestamp |-> 0] }

ParseCalls ==
    { [NoParse EXCEPT !.at = "entry", !.b = b, !.len = Len(b), !.flags = flags,
                      !.ts = ts, !.alloc = alloc, !.entry = ctx, !.ctx = ctx] :
        b \in Packets, flags \in Flags, ts \in Timestamps,
        alloc \in AllocFailures, ctx \in ParseContexts }

\* buf[0]
Buf0(p) == IF p.pos + 1 <= Len(p.b) THEN p.b[p.pos + 1] ELSE 0

\* buf += n; len -= n
Consume(p, n) == [p EXCEPT !.pos = @ + n, !.len = @ - n]

\* return e
Leave(p, e) == [p EXCEPT !.at = "done", !.res = e]

\* the drop of a buffer of another timestamp, and the check of the length
StepEntry(p) ==
    LET q == [p EXCEPT !.ctx = DropStale(p.ctx, p.ts)]
    IN IF Len(p.b) < RTP_VP9_DESC_REQUIRED_SIZE + 1
       THEN Leave(q, AVERROR_INVALIDDATA)
       ELSE [q EXCEPT !.at = "required"]

\* the required byte and the marker
StepRequired(p) ==
    IF DecodeRequired(p.b).last_fragment # HasBit(p.flags, RTP_FLAG_MARKER)
    THEN Leave(p, AVERROR_INVALIDDATA)
    ELSE [Consume(p, RTP_VP9_DESC_REQUIRED_SIZE) EXCEPT !.at = "pic_id"]

StepPictureId(p) ==
    IF ~DecodeRequired(p.b).has_pic_id THEN [p EXCEPT !.at = "layer_idc"]
    ELSE IF HasBit(Buf0(p), 128)
         THEN IF p.len < 2 THEN Leave(p, AVERROR_INVALIDDATA)
              ELSE [Consume(p, 2) EXCEPT !.at = "layer_idc"]
         ELSE [Consume(p, 1) EXCEPT !.at = "layer_idc"]

StepLayerIndices(p) ==
    IF ~DecodeRequired(p.b).has_layer_idc THEN [p EXCEPT !.at = "ref_idc"]
    ELSE IF p.len < 1 THEN Leave(p, AVERROR_INVALIDDATA)
    ELSE IF DecodeRequired(p.b).has_ref_idc
         THEN [Consume(p, 1) EXCEPT !.at = "ref_idc"]
         ELSE IF p.len - 1 < 1 THEN Leave(Consume(p, 1), AVERROR_INVALIDDATA)
              ELSE [Consume(p, 2) EXCEPT !.at = "ref_idc"]

\* if (has_ref_idc && inter_picture_layer_frame), i = 0
StepReferenceIndices(p) ==
    IF DecodeRequired(p.b).has_ref_idc /\ DecodeRequired(p.b).inter_picture_layer_frame
    THEN [p EXCEPT !.at = "ref_loop", !.i = 0]
    ELSE [p EXCEPT !.at = "ss"]

\* a variant of the loop whose body neither consumes a byte nor leaves
StepRefIdcLoop_Stuck(p) ==
    IF p.i >= 3 THEN [p EXCEPT !.at = "ss"] ELSE p

\* the test of the loop over the reference indices and one iteration of it
StepRefIdcLoop(p) ==
    IF p.i >= 3 THEN [p EXCEPT !.at = "ss"]
    ELSE LET q == [p EXCEPT !.loops = @ + 1]
         IN IF q.len < 1 THEN Leave(q, AVERROR_INVALIDDATA)
            ELSE IF Buf0(q) \div 2 = 0 THEN Leave(q, AVERROR_INVALIDDATA)
            ELSE IF Buf0(q) % 2 = 0 THEN [Consume(q, 1) EXCEPT !.at = "ss"]
            ELSE [Consume(q, 1) EXCEPT !.i = @ + 1]

\* the first byte of the scalability structure
StepScalabilityStructure(p) ==
    IF ~DecodeRequired(p.b).has_ss_data THEN [p EXCEPT !.at = "payload"]
    ELSE IF p.len < 1 THEN Leave(p, AVERROR_INVALIDDATA)
    ELSE LET q == [Consume(p, 1) EXCEPT !.n_s = Buf0(p) \div 32,
                                        !.y = HasBit(Buf0(p), 16),
                                        !.g = HasBit(Buf0(p), 8)]
         IN IF q.n_s > 0 THEN Leave(q, AVERROR_PATCHWELCOME)
            ELSE [q EXCEPT !.at = "y"]

\* if (y), the check of the length, i = 0
StepResolutions(p) ==
    IF ~p.y THEN [p EXCEPT !.at = "g"]
    ELSE IF p.len < 4 * (p.n_s + 1) THEN Leave(p, AVERROR_INVALIDDATA)
    ELSE [p EXCEPT !.at = "y_loop", !.i = 0]

\* the test of the loop over the resolutions and one iteration of it
StepResolutionLoop(p) ==
    IF p.i >= p.n_s + 1 THEN [p EXCEPT !.at = "g"]
    ELSE [Consume(p, 4) EXCEPT !.i = @ + 1, !.loops = @ + 1]

\* if (g), n_g, i = 0
StepPictureGroup(p) ==
    IF ~p.g THEN [p EXCEPT !.at = "payload"]
    ELSE IF p.len < 1 THEN Leave(p, AVERROR_INVALIDDATA)
    ELSE [Consume(p, 1) EXCEPT !.at = "g_loop", !.n_g = Buf0(p), !.i = 0]

\* the test of the loop over the pictures of the group and the head of
\* one iteration of it; j = 0
StepPictureGroupLoop(p) ==
    IF p.i >= p.n_g THEN [p EXCEPT !.at = "payload"]
    ELSE LET q == [p EXCEPT !.loops = @ + 1]
         IN IF q.len < 1 THEN Leave(q, AVERROR_INVALIDDATA)
            ELSE LET r == (Buf0(q) \div 4) % 4
                     q1 == [Consume(q, 1) EXCEPT !.r = r]
                 IN IF q1.len < r THEN Leave(q1, AVERROR_INVALIDDATA)
                    ELSE [q1 EXCEPT !.at = "r_loop", !.j = 0]

\* the test of the loop over the P_DIFF of one picture and one iteration
\* of it; when it is over, i++
StepPDiffLoop(p) ==
    IF p.j >= p.r THEN [p EXCEPT !.at = "g_loop", !.i = @ + 1]
    ELSE [Consume(p, 1) EXCEPT !.j = @ + 1, !.loops = @ + 1]

\* sanity check: 1 byte payload as minimum
StepPayloadCheck(p) ==
    IF p.len < 1 THEN Leave(p, AVERROR_INVALIDDATA)
    ELSE [p EXCEPT !.at = "buffer"]

\* the buffer is opened if need be, the payload is written, and the frame
\* is finalized if the packet ends it
StepBuffer(p) ==
    LET d  == DecodeRequired(p.b)
        st == StartFrame(p.ctx, d, p.ts, p.alloc)
        w  == IF st.res # "" THEN st
              ELSE WriteFragment(st.ctx, d, SubSeq(p.b, p.pos + 1, p.pos + p.len), p.alloc)
    IN [p EXCEPT !.at = "done", !.ctx = w.ctx, !.res = w.res, !.pkt = w.pkt]

\* the statements of the call, each executed where the call is
Entry ==
    /\ parse.at = "entry"
    /\ parse' = StepEntry(parse)
    /\ UNCHANGED <<rtp_vp9_ctx, pc, call, res, pkt, run, asm, svars>>

Required ==
    /\ parse.at = "required"
    /\ parse' = StepRequired(parse)
    /\ UNCHANGED <<rtp_vp9_ctx, pc, call, res, pkt, run, asm, svars>>

PictureId ==
    /\ parse.at = "pic_id"
    /\ parse' = StepPictureId(parse)
    /\ UNCHANGED <<rtp_vp9_ctx, pc, call, res, pkt, run, asm, svars>>

LayerIndices ==
    /\ parse.at = "layer_idc"
    /\ parse' = StepLayerIndices(parse)
    /\ UNCHANGED <<rtp_vp9_ctx, pc, call, res, pkt, run, asm, svars>>

ReferenceIndices ==
    /\ parse.at = "ref_idc"
    /\ parse' = StepReferenceIndices(parse)
    /\ UNCHANGED <<rtp_vp9_ctx, pc, call, res, pkt, run, asm, svars>>

RefIdcLoopStep ==
    /\ parse.at = "ref_loop"
    /\ parse' = StepRefIdcLoop(parse)
    /\ UNCHANGED <<rtp_vp9_ctx, pc, call, res, pkt, run, asm, svars>>

ScalabilityStructure ==
    /\ parse.at = "ss"
    /\ parse' = StepScalabilityStructure(parse)
    /\ UNCHANGED <<rtp_vp9_ctx, pc, call, res, pkt, run, asm, svars>>

Resolutions ==
    /\ parse.at = "y"
    /\ parse' = StepResolutions(parse)
    /\ UNCHANGED <<rtp_vp9_ctx, pc, call, res, pkt, run, asm, svars>>

ResolutionLoopStep ==
    /\ parse.at = "y_loop"
    /\ parse' = StepResolutionLoop(parse)
    /\ UNCHANGED <<rtp_vp9_ctx, pc, call, res, pkt, run, asm, svars>>

PictureGroup ==
    /\ parse.at = "g"
    /\ parse' = StepPictureGroup(parse)
    /\ UNCHANGED <<rtp_vp9_ctx, pc, call, res, pkt, run, asm, svars>>

PictureGroupLoopStep ==
    /\ parse.at = "g_loop"
    /\ parse' = StepPictureGroupLoop(parse)
    /\ UNCHANGED <<rtp_vp9_ctx, pc, call, res, pkt, run, asm, svars>>

PDiffLoopStep ==
    /\ parse.at = "r_loop"
    /\ parse' = StepPDiffLoop(parse)
    /\ UNCHANGED <<rtp_vp9_ctx, pc, call, res, pkt, run, asm, svars>>

PayloadCheck ==
    /\ parse.at = "payload"
    /\ parse' = StepPayloadCheck(parse)
    /\ UNCHANGED <<rtp_vp9_ctx, pc, call, res, pkt, run, asm, svars>>

Buffer ==
    /\ parse.at = "buffer"
    /\ parse' = StepBuffer(parse)
    /\ UNCHANGED <<rtp_vp9_ctx, pc, call, res, pkt, run, asm, svars>>

InitParse ==
    /\ rtp_vp9_ctx = [buf |-> NullBuf, timestamp |-> 0]
    /\ pc = "ready"
    /\ call = NoCall
    /\ res = ""
    /\ pkt = NoPkt
    /\ run = NoRun
    /\ asm = NoAsm
    /\ streams = [i \in Streams |-> [buf |-> NullBuf, timestamp |-> 0]]
    /\ alone = [i \in Streams |-> [buf |-> NullBuf, timestamp |-> 0]]
    /\ slast = NoStreamCall
    /\ parse \in ParseCalls

NextParse ==
    \/ Entry \/ Required \/ PictureId \/ LayerIndices
    \/ ReferenceIndices \/ RefIdcLoopStep
    \/ ScalabilityStructure \/ Resolutions \/ ResolutionLoopStep
    \/ PictureGroup \/ PictureGroupLoopStep \/ PDiffLoopStep
    \/ PayloadCheck \/ Buffer

\* the call runs on: no statement of the function waits for anything
SpecParse == InitParse /\ [][NextParse]_vars /\ WF_vars(NextParse)

---------------------------------------------------------------------------
(* Vocabulary of the properties *)

\* vp9_handle_packet has just returned
Handled == pc = "returned" /\ call.op = "handle"

\* vp9_close_context has just returned
Closed == pc = "returned" /\ call.op = "close"

\* the packet just handled passed every validation of vp9_handle_packet
Valid == call.valid

\* the RTP marker of the packet just handled
Marker == HasBit(call.flags, RTP_FLAG_MARKER)

\* the B and E bits of the packet just handled
FrameStart == Len(call.buf) >= 1 /\ HasBit(call.buf[1], 8)
FrameEnd == Len(call.buf) >= 1 /\ HasBit(call.buf[1], 4)

\* a buffer was in progress when the packet came, for the packet's timestamp
\* or for another one
Accumulating == call.before.buf.open
SameTimestamp == call.timestamp = call.before.timestamp

Rejected == res \in {AVERROR_INVALIDDATA, AVERROR_PATCHWELCOME}

---------------------------------------------------------------------------
(* C1: single-packet frames *)

\* C1 as stated: whenever a packet with B, E and the marker set is handled
\* and a frame is emitted, the frame is exactly the packet's bytes after its
\* descriptor and is stamped with the packet's timestamp.
C1_SinglePacketFrame_AsStated ==
    (Handled /\ FrameStart /\ FrameEnd /\ Marker /\ pkt.set)
        => /\ pkt.data = call.payload
           /\ call.timestamp_out = call.timestamp

\* C1 amended: the same, for a packet that does not find a buffer in
\* progress for its own timestamp (such a buffer is continued, B or not).
C1_SinglePacketFrame ==
    (Handled /\ FrameStart /\ FrameEnd /\ Marker /\ pkt.set
       /\ ~(Accumulating /\ SameTimestamp))
        => /\ pkt.data = call.payload
           /\ call.timestamp_out = call.timestamp

\* a B+E packet emitted as a frame after it displaced a buffer of another timestamp
C1_Witness ==
    /\ Handled /\ FrameStart /\ FrameEnd /\ Marker /\ pkt.set
    /\ Accumulating /\ ~SameTimestamp
    /\ pkt.data = call.payload

---------------------------------------------------------------------------
(* C2: frames of N >= 2 fragments *)

---------------------------------------------------------------------------
(* C3: the packet [0x08, 0xAA] *)

\* C3 as stated: [0x08, 0xAA] with the marker clear, on a context with no
\* buffer, emits the frame [0xAA] in the same call and leaves the context Idle.
C3_StartOnly_AsStated ==
    (Handled /\ call.buf = <<8, 170>> /\ ~Marker /\ ~Accumulating)
        => /\ res = SUCCESS
           /\ pkt = [set |-> TRUE, data |-> <<170>>]
           /\ ~rtp_vp9_ctx.buf.open

\* C3 amended: unless the allocation of the buffer fails, [0x08, 0xAA] with
\* the marker clear starts a frame and does not finalize it (EAGAIN, nothing
\* emitted, the buffer holds [0xAA] under the packet's timestamp); it is
\* [0x0C, 0xAA] with the marker set that starts and finalizes the frame
\* [0xAA] in one call and leaves the context Idle.
C3_StartOnly ==
    (Handled /\ ~Accumulating /\ call.failed = "none") =>
        /\ (call.buf = <<8, 170>> /\ ~Marker) =>
              /\ res = AVERROR_EAGAIN
              /\ ~pkt.set
              /\ rtp_vp9_ctx = [buf |-> [open |-> TRUE, data |-> <<170>>],
                                timestamp |-> call.timestamp]
        /\ (call.buf = <<12, 170>> /\ Marker) =>
              /\ res = SUCCESS
              /\ pkt = [set |-> TRUE, data |-> <<170>>]
              /\ ~rtp_vp9_ctx.buf.open

\* [0x08, 0xAA] has opened a buffer on an Idle context
C3_Witness ==
    /\ Handled /\ call.buf = <<8, 170>> /\ ~Marker /\ ~Accumulating
    /\ rtp_vp9_ctx.buf.open /\ res = AVERROR_EAGAIN

---------------------------------------------------------------------------
(* C4: a rejected packet and the buffer in progress *)

\* C4 as stated: when a packet is rejected as malformed or unsupported, a
\* buffer in progress is still in progress with the same bytes and the same
\* timestamp, whatever the packet's timestamp.
C4_RejectKeepsBuffer_AsStated ==
    (Handled /\ Rejected /\ Accumulating) => rtp_vp9_ctx = call.before

\* C4 amended: so it is when the packet's timestamp is the recorded one; a
\* rejected packet with another timestamp has the buffer discarded (the
\* timestamp is compared before the packet is validated).
C4_RejectKeepsBuffer ==
    (Handled /\ Rejected /\ Accumulating) =>
        IF SameTimestamp
        THEN rtp_vp9_ctx = call.before
        ELSE rtp_vp9_ctx = [buf |-> NullBuf, timestamp |-> call.before.timestamp]

\* an unsupported layout rejected while a buffer of the same timestamp is kept
C4_Witness ==
    /\ Handled /\ res = AVERROR_PATCHWELCOME /\ Accumulating /\ SameTimestamp
    /\ rtp_vp9_ctx.buf.open

---------------------------------------------------------------------------
(* C5: the unsupported layout *)

\* the length of the picture ID and layer sections that the first two bytes announce
SectionsLen(b) ==
    (IF HasBit(b[1], 128) THEN (IF b[2] >= 128 THEN 2 ELSE 1) ELSE 0)
  + (IF HasBit(b[1], 32) THEN (IF HasBit(b[1], 16) THEN 1 ELSE 2) ELSE 0)

\* k reference records follow offset o, all present, none with a zero
\* P_DIFF, and k is where the parser stops
RefRecords(b, o, k) ==
    /\ o + k <= Len(b)
    /\ \A i \in 1..k : b[o + i] \div 2 # 0
    /\ \A i \in 1..(k - 1) : b[o + i] % 2 = 1
    /\ k = 3 \/ b[o + k] % 2 = 0

\* the packet reaches a scalability structure byte, at offset o, that
\* announces more than one spatial layer
UnsupportedLayout(b, flags) ==
    /\ Len(b) >= 2
    /\ HasBit(b[1], 4) = HasBit(flags, RTP_FLAG_MARKER)
    /\ HasBit(b[1], 2)
    /\ 1 + SectionsLen(b) <= Len(b)
    /\ \E o \in 1..Len(b) :
         /\ IF HasBit(b[1], 16) /\ HasBit(b[1], 64)
            THEN \E k \in 1..3 : o = 1 + SectionsLen(b) + k
                                 /\ RefRecords(b, 1 + SectionsLen(b), k)
            ELSE o = 1 + SectionsLen(b)
         /\ o < Len(b)
         /\ b[o + 1] \div 32 # 0

\* C5: vp9_handle_packet returns AVERROR_PATCHWELCOME, and not
\* AVERROR_INVALIDDATA, exactly for the packets of at least 2 bytes whose E
\* bit equals the marker, whose sections before the scalability structure
\* are complete and carry no zero P_DIFF, whose V bit is set and whose SS
\* byte has N_S > 0, whatever follows that byte.
C5_UnsupportedExactly ==
    Handled =>
        /\ res = AVERROR_PATCHWELCOME <=> UnsupportedLayout(call.buf, call.flags)
        /\ UnsupportedLayout(call.buf, call.flags) => res # AVERROR_INVALIDDATA

\* unsupported although the bytes after the SS byte are too few for what it announces
C5_Witness ==
    /\ Handled /\ res = AVERROR_PATCHWELCOME
    /\ call.buf \in {<<2, 184, 170>>, <<142, 5, 32>>}

---------------------------------------------------------------------------
(* C6: E against the marker *)

\* C6: a packet of at least 2 bytes whose E bit differs from the marker is
\* rejected as malformed; no frame is emitted and none of its bytes is
\* appended: the buffer is left as it was, or gone for a timestamp change.
C6_MarkerMismatch ==
    (Handled /\ Len(call.buf) >= 2 /\ FrameEnd # Marker) =>
        /\ res = AVERROR_INVALIDDATA
        /\ ~pkt.set
        /\ rtp_vp9_ctx.timestamp = call.before.timestamp
        /\ \/ rtp_vp9_ctx.buf = call.before.buf
           \/ ~rtp_vp9_ctx.buf.open /\ ~SameTimestamp

\* a B packet with the marker set, rejected while a buffer is in progress
C6_Witness ==
    /\ Handled /\ Len(call.buf) >= 2 /\ FrameStart /\ ~FrameEnd /\ Marker
    /\ Accumulating /\ SameTimestamp /\ res = AVERROR_INVALIDDATA

---------------------------------------------------------------------------
(* C7: a packet with another timestamp *)

\* the packet just handled found a buffer in progress for another timestamp
Discontinuity == Handled /\ Accumulating /\ ~SameTimestamp

\* C7 as stated: on a discontinuity, a well-formed frame-start leaves a
\* buffer that holds only its payload under its timestamp; a well-formed
\* packet without frame-start leaves the context Idle and returns EAGAIN;
\* no byte of the discarded buffer is left for a later frame.
C7_DiscardOnTimestamp_AsStated ==
    Discontinuity =>
        /\ (Valid /\ FrameStart) =>
              rtp_vp9_ctx = [buf |-> [open |-> TRUE, data |-> call.payload],
                             timestamp |-> call.timestamp]
        /\ (Valid /\ ~FrameStart) =>
              /\ ~rtp_vp9_ctx.buf.open
              /\ res = AVERROR_EAGAIN
        /\ rtp_vp9_ctx.buf.open => rtp_vp9_ctx.buf.data = call.payload
        /\ pkt.set => pkt.data = call.payload

\* C7 amended: on a discontinuity, a well-formed frame-start without
\* frame-end leaves, unless the allocation of the buffer fails, a buffer
\* that holds only its payload under its timestamp; with frame-end its
\* payload alone is the emitted frame and the context is Idle (unless an
\* allocation fails: then nothing is emitted and the context is Idle); a
\* well-formed packet without frame-start leaves the context Idle and
\* returns EAGAIN; whatever the packet, the buffer and the frame that the
\* call leaves hold no byte of the discarded buffer.
C7_DiscardOnTimestamp ==
    Discontinuity =>
        /\ (Valid /\ FrameStart /\ ~FrameEnd
              /\ call.failed = "none") =>
              rtp_vp9_ctx = [buf |-> [open |-> TRUE, data |-> call.payload],
                             timestamp |-> call.timestamp]
        /\ (Valid /\ FrameStart /\ FrameEnd
              /\ call.failed = "none") =>
              /\ pkt = [set |-> TRUE, data |-> call.payload]
              /\ ~rtp_vp9_ctx.buf.open
        /\ call.failed # "none" => (~pkt.set /\ ~rtp_vp9_ctx.buf.open)
        /\ (Valid /\ ~FrameStart) =>
              /\ ~rtp_vp9_ctx.buf.open
              /\ res = AVERROR_EAGAIN
        /\ rtp_vp9_ctx.buf.open => rtp_vp9_ctx.buf.data = call.payload
        /\ pkt.set => pkt.data = call.payload

\* a frame-start with a new timestamp has replaced a buffer of two bytes
C7_Witness ==
    /\ Discontinuity /\ FrameStart /\ ~FrameEnd
    /\ Len(call.before.buf.data) = 2
    /\ rtp_vp9_ctx.buf.open /\ Len(rtp_vp9_ctx.buf.data) = 1

---------------------------------------------------------------------------
(* C8: the sequence number *)

\* C8: the call just made, repeated with any other sequence number on the
\* same context with the same packet, gives the same return value, frame
\* and context; and a buffer in progress is gone without a frame only when
\* the timestamp changed or the finalization failed.
C8_SeqIgnored ==
    Handled =>
        /\ \A s \in SeqNums :
              vp9_handle_packet(call.before, call.buf, call.timestamp, s,
                                call.flags, call.failed)
                 = [ctx |-> rtp_vp9_ctx, res |-> res, pkt |-> pkt,
                    timestamp |-> call.timestamp_out]
        /\ (Accumulating /\ ~rtp_vp9_ctx.buf.open /\ ~pkt.set) =>
              (~SameTimestamp \/ call.failed = "finalize")

\* a fragment appended to a buffer in progress, under a sequence number other than 0
C8_Witness ==
    /\ Handled /\ call.seq # 0 /\ Accumulating /\ SameTimestamp
    /\ rtp_vp9_ctx.buf.open
    /\ Len(rtp_vp9_ctx.buf.data) > Len(call.before.buf.data)

---------------------------------------------------------------------------
(* C9: a packet without frame-start on an Idle context *)

\* C9: with no buffer in progress, a well-formed packet without B returns
\* EAGAIN, emits nothing and opens no buffer: the context is as before,
\* also when the packet has E and the marker set.
C9_AwaitStart ==
    (Handled /\ ~Accumulating /\ Valid /\ ~FrameStart) =>
        /\ res = AVERROR_EAGAIN
        /\ ~pkt.set
        /\ rtp_vp9_ctx = call.before

\* an E packet with the marker set, on an Idle context
C9_Witness ==
    /\ Handled /\ ~Accumulating /\ Valid
    /\ ~FrameStart /\ FrameEnd /\ Marker
    /\ res = AVERROR_EAGAIN

---------------------------------------------------------------------------
(* C10: vp9_close_context *)

\* C10: vp9_close_context leaves no buffer and emits no frame; on a context
\* without a buffer it changes nothing, and closing again changes nothing.
C10_CloseContext ==
    Closed =>
        /\ ~rtp_vp9_ctx.buf.open
        /\ ~pkt.set
        /\ ~call.before.buf.open => rtp_vp9_ctx = call.before
        /\ vp9_close_context(rtp_vp9_ctx) = rtp_vp9_ctx

\* a buffer in progress was released by vp9_close_context
C10_Witness ==
    /\ Closed /\ call.before.buf.open /\ ~rtp_vp9_ctx.buf.open

---------------------------------------------------------------------------
(* C11: the length of the descriptor *)

\* byte i of the packet, 0 beyond its end
ByteAt(b, i) == IF i >= 1 /\ i <= Len(b) THEN b[i] ELSE 0

\* the reference records that follow offset o: up to and including the
\* first whose continuation bit is clear, 3 at most
RefCount(b, o) ==
    IF ByteAt(b, o + 1) % 2 = 0 THEN 1
    ELSE IF ByteAt(b, o + 2) % 2 = 0 THEN 2
    ELSE 3

\* the bytes of n picture-group entries that follow offset o: one byte and
\* R reference bytes each, R being bits 2..3 of that byte
RECURSIVE GroupLen(_, _, _)
GroupLen(b, o, n) ==
    IF n = 0 THEN 0
    ELSE LET R == (ByteAt(b, o + 1) \div 4) % 4
         IN 1 + R + GroupLen(b, o + 1 + R, n - 1)

\* the sum the claim gives for the length of the descriptor
DescriptorLen(b) ==
    LET I  == HasBit(b[1], 128)
        P  == HasBit(b[1], 64)
        L  == HasBit(b[1], 32)
        F  == HasBit(b[1], 16)
        V  == HasBit(b[1], 2)
        o1 == 1 + (IF I THEN (IF ByteAt(b, 2) >= 128 THEN 2 ELSE 1) ELSE 0)
        o2 == o1 + (IF L THEN (IF F THEN 1 ELSE 2) ELSE 0)
        o3 == o2 + (IF F /\ P THEN RefCount(b, o2) ELSE 0)
        Y  == HasBit(ByteAt(b, o3 + 1), 16)
        G  == HasBit(ByteAt(b, o3 + 1), 8)
        o4 == o3 + 1 + (IF Y THEN 4 ELSE 0)
    IN IF ~V THEN o3
       ELSE o4 + (IF G THEN 1 + GroupLen(b, o4 + 1, ByteAt(b, o4 + 1)) ELSE 0)

\* the call wrote its packet: into a frame it emitted, or into the buffer it left open
Wrote == Handled /\ (pkt.set \/ (res = AVERROR_EAGAIN /\ rtp_vp9_ctx.buf.open))

\* the bytes the call found in the buffer it wrote to
Prior == IF Accumulating /\ SameTimestamp THEN call.before.buf.data ELSE <<>>

\* the bytes in the emitted frame, or else in the buffer, after the call
Written == IF pkt.set THEN pkt.data ELSE rtp_vp9_ctx.buf.data

\* C11: for every packet that passes the validation, the parser stops at
\* the offset that the sum of the claim gives (1, the picture ID, the layer
\* indices, the reference records, the scalability structure), at least one
\* byte follows that offset, and when the packet is written, the bytes from
\* that offset to the end of the packet, and no others, are appended.
C11_DescriptorLength ==
    (Handled /\ Valid) =>
        LET o == DescriptorLen(call.buf)
            tail == SubSeq(call.buf, o + 1, Len(call.buf))
        IN /\ ParseDescriptor(call.buf, DecodeRequired(call.buf)).pos = o
           /\ o < Len(call.buf)
           /\ call.payload = tail
           /\ Wrote => Written = Prior \o tail

\* a packet with a 2-byte picture ID, written after its 3-byte descriptor
C11_Witness ==
    /\ Wrote /\ call.buf = <<140, 133, 1, 170>>
    /\ DescriptorLen(call.buf) = 3
    /\ Written = <<170>>

---------------------------------------------------------------------------
(* C12: at least one byte of payload *)

\* the packet's E bit equals the marker, every section of its descriptor
\* is complete and valid, and the descriptor is the whole packet
EmptyPayload(b, flags) ==
    /\ Len(b) >= 2
    /\ HasBit(b[1], 4) = HasBit(flags, RTP_FLAG_MARKER)
    /\ LET d == DecodeRequired(b)
           c == DecodeScalabilityStructure(b, d,
                  DecodeReferenceIndices(b, d,
                    DecodeLayerIndices(b, d,
                      DecodePictureId(b, d,
                        [pos |-> 1, len |-> Len(b) - 1, ret |-> "", hi |-> 1]))))
       IN c.ret = "" /\ c.len = 0 /\ c.pos = Len(b)

\* a 2-byte packet with I, L and V clear and the E bit equal to the marker
TwoBytePlain(b, flags) ==
    /\ Len(b) = 2
    /\ ~HasBit(b[1], 128) /\ ~HasBit(b[1], 32) /\ ~HasBit(b[1], 2)
    /\ HasBit(b[1], 4) = HasBit(flags, RTP_FLAG_MARKER)

\* the packet passes the validation and its second byte is its whole payload
SecondByteIsPayload ==
    /\ res \notin {AVERROR_INVALIDDATA, AVERROR_PATCHWELCOME}
    /\ call.payload = <<call.buf[2]>>
    /\ Wrote => Written = Prior \o <<call.buf[2]>>

\* what C12 says of every packet but the 2-byte ones: no packet is accepted
\* without a byte of payload, packets of fewer than 2 bytes are malformed,
\* and so are packets that their descriptor fills
RejectsWithoutPayload ==
    /\ res \notin {AVERROR_INVALIDDATA, AVERROR_PATCHWELCOME}
          => DescriptorLen(call.buf) < Len(call.buf)
    /\ Len(call.buf) < 2 => res = AVERROR_INVALIDDATA /\ ~pkt.set
    /\ EmptyPayload(call.buf, call.flags) => res = AVERROR_INVALIDDATA /\ ~pkt.set

\* C12 as stated: a packet is accepted only if a byte of payload remains,
\* and every 2-byte packet with I, L and V clear and E equal to the marker
\* is accepted with its second byte as its whole payload.
C12_PayloadRequired_AsStated ==
    Handled =>
        /\ RejectsWithoutPayload
        /\ TwoBytePlain(call.buf, call.flags) => SecondByteIsPayload

\* C12 amended: the same, the 2-byte packets being those that, besides,
\* do not have F and P both set (with both set the second byte is read as
\* a reference record and no payload is left).
C12_PayloadRequired ==
    Handled =>
        /\ RejectsWithoutPayload
        /\ (TwoBytePlain(call.buf, call.flags)
              /\ ~(HasBit(call.buf[1], 16) /\ HasBit(call.buf[1], 64)))
             => SecondByteIsPayload
        /\ (TwoBytePlain(call.buf, call.flags)
              /\ HasBit(call.buf[1], 16) /\ HasBit(call.buf[1], 64))
             => res = AVERROR_INVALIDDATA

\* a 2-byte packet with F set and P clear, emitted as a frame of its second byte
C12_Witness ==
    /\ Handled /\ TwoBytePlain(call.buf, call.flags)
    /\ HasBit(call.buf[1], 16) /\ ~Accumulating
    /\ pkt.set /\ pkt.data = <<call.buf[2]>>

---------------------------------------------------------------------------
(* C13: allocation failures *)

\* an allocation failed in the call: that of the buffer of a new frame, or
\* that of the output packet of a finished one
AllocationFailed == Handled /\ call.failed # "none"

\* C13: when an allocation fails inside vp9_handle_packet, the call
\* returns an error, emits no frame and leaves the context without a
\* buffer; a failure to open happens only for a frame-start packet that
\* finds no buffer to continue, a failure to finalize only for a packet
\* with E set.
C13_AllocationFailure ==
    AllocationFailed =>
        /\ res = AVERROR_ENOMEM
        /\ ~pkt.set
        /\ rtp_vp9_ctx.buf = NullBuf
        /\ Valid
        /\ call.failed = "open" => FrameStart /\ ~(Accumulating /\ SameTimestamp)
        /\ call.failed = "finalize" => FrameEnd

\* the output packet of a frame of two fragments could not be allocated:
\* the bytes of the first fragment are gone with the buffer
C13_Witness ==
    /\ AllocationFailed /\ call.failed = "finalize"
    /\ Accumulating /\ SameTimestamp /\ call.before.buf.data # <<>>
    /\ res = AVERROR_ENOMEM /\ ~rtp_vp9_ctx.buf.open

---------------------------------------------------------------------------
(* C14: the context is never stuck *)

\* a well-formed packet with B, E and the marker set, of another timestamp
\* than the buffer in progress, if there is one
FreshWholeFrame ==
    /\ Handled /\ Valid
    /\ FrameStart /\ FrameEnd /\ Marker
    /\ ~(Accumulating /\ SameTimestamp)

\* the packet was emitted as a frame of its own payload, and nothing is left
EmittedAlone ==
    /\ res = SUCCESS
    /\ pkt = [set |-> TRUE, data |-> call.payload]
    /\ call.timestamp_out = call.timestamp
    /\ rtp_vp9_ctx.buf = NullBuf

\* C14 as stated: in every state the context can reach, whatever packets
\* were rejected or left incomplete before, a well-formed B+E+marker packet
\* whose timestamp is not that of a buffer in progress is emitted as a
\* frame of exactly its payload, and the context has no buffer afterwards.
C14_NeverStuck_AsStated == FreshWholeFrame => EmittedAlone

\* C14 amended: the same, unless an allocation fails in that call; the
\* call then returns the error and the context has no buffer either.
C14_NeverStuck ==
    FreshWholeFrame =>
        /\ call.failed = "none" => EmittedAlone
        /\ call.failed # "none" => res = AVERROR_ENOMEM /\ rtp_vp9_ctx.buf = NullBuf

\* a frame left incomplete with 2 bytes in the buffer, then a whole frame
\* of another timestamp, with a picture ID in its descriptor, emitted alone
C14_Witness ==
    /\ FreshWholeFrame /\ EmittedAlone
    /\ Accumulating /\ Len(call.before.buf.data) = 2
    /\ HasBit(call.buf[1], 128)

---------------------------------------------------------------------------
(* C15: the timestamp of an emitted frame *)

\* C15: whenever a frame is emitted, the caller's timestamp, which the
\* call leaves as it was and which stamps the frame, equals the timestamp
\* recorded in the context, and that is the timestamp of the packet that
\* opened the buffer of the frame: this packet, or else the one whose
\* timestamp the context held before the call.
C15_FrameTimestamp ==
    (Handled /\ pkt.set) =>
        /\ call.timestamp_out = call.timestamp
        /\ rtp_vp9_ctx.timestamp = call.timestamp_out
        /\ call.asm.ts = rtp_vp9_ctx.timestamp
        /\ (Accumulating /\ SameTimestamp)
              => rtp_vp9_ctx.timestamp = call.before.timestamp
        /\ ~(Accumulating /\ SameTimestamp) => FrameStart

\* a frame emitted by a call that opened its buffer, in a context that
\* held another timestamp before
C15_Witness ==
    /\ Handled /\ pkt.set /\ ~Accumulating
    /\ call.before.timestamp # call.timestamp
    /\ rtp_vp9_ctx.timestamp = call.timestamp
    /\ call.timestamp_out = call.timestamp

---------------------------------------------------------------------------
(* C17: a packet for the buffer in progress *)

\* a well-formed packet that finds a buffer in progress for its timestamp
Continues ==
    /\ Handled /\ Accumulating /\ SameTimestamp
    /\ Valid

\* the buffer of before the call followed by the payload of the packet
Accumulated == call.before.buf.data \o call.payload

\* without E the packet is appended and the buffer stays, B set or not
ContinuesOpen ==
    ~FrameEnd => /\ res = AVERROR_EAGAIN /\ ~pkt.set
                 /\ rtp_vp9_ctx.buf = [open |-> TRUE, data |-> Accumulated]

\* with E the whole buffer, the packet appended, is emitted
ContinuesEmitted ==
    /\ res = SUCCESS
    /\ pkt = [set |-> TRUE, data |-> Accumulated]
    /\ rtp_vp9_ctx.buf = NullBuf

\* C17 as stated: a well-formed packet of the timestamp of the buffer in
\* progress is appended to that buffer, whether its B bit is set or not,
\* the recorded timestamp stays, and if its E bit is set the whole buffer,
\* earlier fragments included, is emitted and no buffer is left.
C17_ContinueBuffer_AsStated ==
    Continues =>
        /\ rtp_vp9_ctx.timestamp = call.before.timestamp
        /\ ContinuesOpen
        /\ FrameEnd => ContinuesEmitted

\* C17 amended: the same, unless the output packet cannot be allocated:
\* then the allocation error is returned, nothing is emitted and no buffer
\* is left.
C17_ContinueBuffer ==
    Continues =>
        /\ rtp_vp9_ctx.timestamp = call.before.timestamp
        /\ ContinuesOpen
        /\ (FrameEnd /\ call.failed = "none") => ContinuesEmitted
        /\ (FrameEnd /\ call.failed # "none")
              => /\ call.failed = "finalize" /\ res = AVERROR_ENOMEM
                 /\ ~pkt.set /\ rtp_vp9_ctx.buf = NullBuf

\* a packet with B and E set that finds a buffer of its timestamp: the
\* frame emitted begins with the bytes of that buffer
C17_Witness ==
    /\ Continues /\ FrameStart /\ FrameEnd
    /\ pkt.set /\ pkt.data = Accumulated
    /\ Len(pkt.data) > Len(call.payload)

---------------------------------------------------------------------------
(* C18: the return value EAGAIN *)

\* the packet passed the validation, has E clear, and its payload was
\* appended to the buffer that was open, or that it opened, where the
\* buffer is looked for (rtpdec_vp9.c:301, after a stale buffer is dropped)
AppendedNotLast ==
    /\ Valid /\ ~FrameEnd
    /\ (Accumulating /\ SameTimestamp) \/ FrameStart
    /\ rtp_vp9_ctx.buf = [open |-> TRUE, data |-> Prior \o call.payload]

\* the packet passed the validation, has B clear, and no buffer was open there
NoBufferNoStart ==
    /\ Valid /\ ~FrameStart
    /\ ~(Accumulating /\ SameTimestamp)

\* C18: vp9_handle_packet returns AVERROR(EAGAIN) exactly when the packet
\* was appended to an open buffer and has E clear, or when no buffer was
\* open and the packet has B clear; every other call returns 0 with a
\* frame, or an error without one.
C18_AwaitingExactly ==
    Handled =>
        /\ res = AVERROR_EAGAIN <=> (AppendedNotLast \/ NoBufferNoStart)
        /\ res = AVERROR_EAGAIN => ~pkt.set
        /\ res # AVERROR_EAGAIN =>
             \/ res = SUCCESS /\ pkt.set
             \/ /\ res \in {AVERROR_INVALIDDATA, AVERROR_PATCHWELCOME, AVERROR_ENOMEM}
                /\ ~pkt.set

\* EAGAIN for a packet with E set: it has no B and finds no buffer to end
C18_Witness ==
    /\ Handled /\ res = AVERROR_EAGAIN
    /\ NoBufferNoStart /\ FrameEnd /\ ~Accumulating

---------------------------------------------------------------------------
(* C19: a buffer is a reassembly in progress *)

\* C19: in every state, and so after every call of vp9_handle_packet and
\* of vp9_close_context, a buffer that is present holds at least one byte,
\* was opened by a packet with B set, has received no packet with E set,
\* and holds fragments of the recorded timestamp only; a context without
\* buffer holds no byte and no fragment; after a call that emits a frame,
\* and after vp9_close_context, no buffer is present.
C19_BufferIffInProgress ==
    /\ rtp_vp9_ctx.buf.open =>
          /\ Len(rtp_vp9_ctx.buf.data) >= 1
          /\ asm.started /\ ~asm.ended
          /\ asm.one_ts /\ asm.ts = rtp_vp9_ctx.timestamp
    /\ ~rtp_vp9_ctx.buf.open => rtp_vp9_ctx.buf = NullBuf /\ asm = NoAsm
    /\ (Handled /\ pkt.set) => ~rtp_vp9_ctx.buf.open
    /\ Closed => ~rtp_vp9_ctx.buf.open

\* a buffer present after a call that appended a second fragment to it
C19_Witness ==
    /\ Handled /\ Accumulating /\ SameTimestamp
    /\ rtp_vp9_ctx.buf.open /\ Len(rtp_vp9_ctx.buf.data) >= 2
    /\ rtp_vp9_ctx.buf.data # call.before.buf.data
    /\ asm.started /\ ~asm.ended

---------------------------------------------------------------------------
(* C20: the timestamp of a context without buffer *)

\* the call just made, made again on a context without buffer that holds timestamp t
FromIdleWith(t) ==
    vp9_handle_packet([buf |-> NullBuf, timestamp |-> t], call.buf,
                      call.timestamp, call.seq, call.flags, call.failed)

\* C20: a call of vp9_handle_packet on a context without buffer gives the
\* return value, the frame and the buffer that the same call gives on
\* every context without buffer that holds another timestamp; the
\* timestamp it leaves is the packet's if it left a buffer or emitted a frame.
C20_IdleTimestampIrrelevant ==
    (Handled /\ ~Accumulating) =>
        /\ \A t \in Timestamps :
              /\ FromIdleWith(t).res = res
              /\ FromIdleWith(t).pkt = pkt
              /\ FromIdleWith(t).ctx.buf = rtp_vp9_ctx.buf
              /\ FromIdleWith(t).timestamp = call.timestamp_out
        /\ (rtp_vp9_ctx.buf.open \/ pkt.set) => rtp_vp9_ctx.timestamp = call.timestamp

\* a frame begins with the timestamp of the frame emitted last, which the
\* context without buffer still holds, and a buffer is opened for it
C20_Witness ==
    /\ Handled /\ ~Accumulating /\ FrameStart
    /\ call.before.timestamp = call.timestamp /\ call.timestamp # 0
    /\ rtp_vp9_ctx.buf.open /\ res = AVERROR_EAGAIN

---------------------------------------------------------------------------
(* C16: the contexts of two streams *)

\* C16: a call of vp9_handle_packet or of vp9_close_context for one
\* stream leaves the context of the other stream as it was, and in every
\* interleaving of the calls of the two streams each call returns the
\* value and the frame, and leaves its stream the context, that it would
\* if the stream were handled alone.
C16_IndependentStreams ==
    /\ streams = alone
    /\ slast.op # "none" =>
          /\ \A st \in Streams \ {slast.st} : streams[st] = slast.before[st]
          /\ slast.res = slast.res_alone
          /\ slast.pkt = slast.pkt_alone

\* a frame of one stream is completed and emitted while the other stream
\* has a buffer in progress, which stays
C16_Witness ==
    /\ slast.op = "handle" /\ slast.pkt.set /\ Len(slast.pkt.data) = 2
    /\ slast.before[slast.st].buf.open
    /\ \E st \in Streams \ {slast.st} :
          streams[st].buf.open /\ streams[st] = slast.before[st]

---------------------------------------------------------------------------
(* C21: a P_DIFF of zero *)

\* the parser gets to the place of the reference indices: the packet has
\* 2 bytes at least, its E bit equals the marker, and the picture ID and
\* the layer indices that it announces are complete
ReachesRefs ==
    /\ Handled /\ Len(call.buf) >= 2
    /\ HasBit(call.buf[1], 4) = Marker
    /\ 1 + SectionsLen(call.buf) <= Len(call.buf)

\* F and P of the packet just handled
FlexibleInter == HasBit(call.buf[1], 16) /\ HasBit(call.buf[1], 64)

\* one of the records that the parser examines after offset o has a
\* P_DIFF of zero: record k of at most 3, the records before it being
\* present, not zero, and with their continuation bit set
ZeroRefRecord(b, o) ==
    \E k \in 1..3 :
        /\ o + k <= Len(b)
        /\ b[o + k] \div 2 = 0
        /\ \A i \in 1..(k - 1) : b[o + i] \div 2 # 0 /\ b[o + i] % 2 = 1

\* C21: with F and P both set, a reference record with a P_DIFF of zero
\* among those examined makes vp9_handle_packet return
\* AVERROR_INVALIDDATA and write nothing; with F or P clear no record is
\* examined: the byte at that place, zero or not, begins the payload of a
\* packet without scalability structure, and the packet is not rejected.
C21_ZeroPDiff ==
    ReachesRefs =>
        LET o == 1 + SectionsLen(call.buf)
        IN /\ (FlexibleInter /\ ZeroRefRecord(call.buf, o))
                => /\ res = AVERROR_INVALIDDATA /\ ~pkt.set
                   /\ rtp_vp9_ctx.buf = DropStale(call.before, call.timestamp).buf
           /\ (~FlexibleInter /\ ~HasBit(call.buf[1], 2) /\ o < Len(call.buf))
                => /\ ~Rejected /\ Valid
                   /\ call.payload = SubSeq(call.buf, o + 1, Len(call.buf))

\* both halves: with F and P set a second record of zero, behind a valid
\* first one, is rejected
C21_Witness ==
    /\ ReachesRefs /\ FlexibleInter
    /\ call.buf[2] \div 2 # 0 /\ call.buf[2] % 2 = 1
    /\ Len(call.buf) >= 3 /\ call.buf[3] \div 2 = 0
    /\ ~HasBit(call.buf[1], 128) /\ ~HasBit(call.buf[1], 32)
    /\ res = AVERROR_INVALIDDATA

---------------------------------------------------------------------------
(* C22: the reads of the parser stay inside the packet *)

\* where the parser ends on each packet of 2 bytes or more: its position,
\* the length it has left, its return value, and one past the highest
\* index it read
PacketCursor ==
    [b \in {p \in Packets : Len(p) >= 2} |-> ParseDescriptor(b, DecodeRequired(b))]

\* the length of the descriptor that each packet announces, bytes beyond
\* the end of the packet counting as zero
PacketDescriptorLen ==
    [b \in {p \in Packets : Len(p) >= 2} |-> DescriptorLen(b)]

\* the parser ran on the packet just handled
Parsed == Handled /\ Len(call.buf) >= 2 /\ HasBit(call.buf[1], 4) = Marker

\* C22: vp9_handle_packet reads no byte of a packet of fewer than 2 bytes
\* beyond the first and, on every other packet, no byte at or beyond the
\* length of the packet; the length left to the parser never becomes
\* negative and, added to its position, remains the length of the packet;
\* a packet whose announced descriptor does not end before the packet does
\* is rejected with AVERROR_INVALIDDATA, unless it is rejected as
\* unsupported before the missing bytes are looked for.
C22_ReadsInBounds ==
    /\ (Handled /\ Len(call.buf) < 2) => res = AVERROR_INVALIDDATA
    /\ Parsed =>
          LET c == PacketCursor[call.buf]
          IN /\ c.hi <= Len(call.buf)
             /\ c.len >= 0 /\ c.pos >= 1
             /\ c.pos + c.len = Len(call.buf)
             /\ c.ret # "" => res = c.ret
             /\ (PacketDescriptorLen[call.buf] >= Len(call.buf)
                   /\ res # AVERROR_PATCHWELCOME) => res = AVERROR_INVALIDDATA

\* a 2-byte picture ID is announced by the last byte of the packet: the
\* byte is read, with no check of its own, and the packet is rejected
C22_Witness ==
    /\ Parsed /\ HasBit(call.buf[1], 128)
    /\ Len(call.buf) = 2 /\ call.buf[2] >= 128
    /\ PacketCursor[call.buf].hi = 2
    /\ res = AVERROR_INVALIDDATA

---------------------------------------------------------------------------
(* C23: the frames emitted *)

\* C23: every frame that vp9_handle_packet emits, in any state the context
\* can reach, holds at least one byte; its fragments all came with the
\* timestamp of the packet that completes it; the fragment that opened its
\* buffer had B set; the packet that completes it has E and the marker
\* set and passed the validation; and no fragment before that one had E set.
C23_EmittedFrames ==
    (Handled /\ pkt.set) =>
        /\ res = SUCCESS /\ Valid
        /\ Len(pkt.data) >= 1
        /\ pkt.data = Prior \o call.payload
        /\ call.asm.one_ts /\ call.asm.ts = call.timestamp
        /\ call.asm.started
        /\ FrameEnd /\ Marker
        /\ ~call.kept.ended
        /\ (Accumulating /\ SameTimestamp) <=> call.kept.started

\* a frame of two fragments of the second timestamp, 2 bytes in the first
\* and 1 byte in the last, which has B clear
C23_Witness ==
    /\ Handled /\ pkt.set /\ ~FrameStart
    /\ call.timestamp = 1 /\ call.asm.ts = 1
    /\ Len(call.before.buf.data) = 2 /\ Len(call.payload) = 1
    /\ call.kept.started /\ ~call.kept.ended

---------------------------------------------------------------------------
(* C24: a rejected packet leaves no byte *)

\* C24: a call that returns AVERROR_INVALIDDATA or AVERROR_PATCHWELCOME
\* emits no frame and writes nothing: the buffer it leaves is the buffer
\* of before the call, byte for byte and with the fragments it had, if
\* that one was of the packet's timestamp, and no buffer otherwise; the
\* recorded timestamp is as before.
C24_RejectedContributesNothing ==
    (Handled /\ Rejected) =>
        /\ ~pkt.set /\ ~Valid
        /\ rtp_vp9_ctx.timestamp = call.before.timestamp
        /\ (Accumulating /\ SameTimestamp)
              => rtp_vp9_ctx.buf = call.before.buf /\ asm = call.kept
        /\ ~(Accumulating /\ SameTimestamp)
              => rtp_vp9_ctx.buf = NullBuf /\ asm = NoAsm
        /\ call.asm = call.kept

\* a packet with bytes behind the place where it is rejected, for a P_DIFF
\* of zero, and a buffer of its timestamp that stays as it was
C24_Witness ==
    /\ Handled /\ res = AVERROR_INVALIDDATA
    /\ call.buf = <<92, 0, 170>> /\ Marker
    /\ Accumulating /\ SameTimestamp
    /\ rtp_vp9_ctx.buf = call.before.buf /\ Len(rtp_vp9_ctx.buf.data) = 2

---------------------------------------------------------------------------
(* C25: vp9_handle_packet terminates *)

\* the call followed statement by statement has returned
Returned == parse.at = "done"

\* the ways a call can end that fit what it returned
Outcomes(r, p) ==
    { o \in {"frame", "awaiting", "malformed", "unsupported", "allocation"} :
        \/ o = "frame" /\ r = SUCCESS /\ p.set
        \/ o = "awaiting" /\ r = AVERROR_EAGAIN /\ ~p.set
        \/ o = "malformed" /\ r = AVERROR_INVALIDDATA /\ ~p.set
        \/ o = "unsupported" /\ r = AVERROR_PATCHWELCOME /\ ~p.set
        \/ o = "allocation" /\ r = AVERROR_ENOMEM /\ ~p.set }

\* at every statement the iterations made so far, over all the loops, are
\* no more than the bytes consumed so far, plus the one that is ending the
\* call; the length left is not negative; and a call that has returned
\* ended in exactly one way, with the result of vp9_handle_packet
StepsBounded ==
    /\ parse.len >= 0
    /\ parse.pos + parse.len = Len(parse.b)
    /\ parse.loops <= parse.pos
    /\ parse.loops <= Len(parse.b)
    /\ parse.i <= 255 /\ parse.j <= 3
    /\ Returned =>
          LET v == vp9_handle_packet(parse.entry, parse.b, parse.ts, 0,
                                     parse.flags, parse.alloc)
          IN /\ Cardinality(Outcomes(parse.res, parse.pkt)) = 1
             /\ parse.res = v.res /\ parse.pkt = v.pkt /\ parse.ctx = v.ctx

\* an iteration of a loop consumes at least one byte or ends the call
IterationConsumes ==
    parse'.loops > parse.loops => parse'.len < parse.len \/ parse'.at = "done"

\* C25: every call of vp9_handle_packet returns; each iteration of its
\* loops (reference indices, resolutions, pictures of the group and their
\* P_DIFF) consumes at least one byte or ends the call, so that the
\* iterations are no more than the bytes of the packet; and the call ends
\* in exactly one of: 0 with a frame, AVERROR(EAGAIN), AVERROR_INVALIDDATA,
\* AVERROR_PATCHWELCOME, an allocation error.
C25_Terminates ==
    /\ []StepsBounded
    /\ [][IterationConsumes]_parse
    /\ <>Returned

\* a call that went twice through the loop over the pictures of the group
\* and once through the loop over their P_DIFF has returned, with the
\* frame that its packet completes
C25_Witness ==
    /\ Returned /\ parse.b = <<6, 8, 2, 4, 1, 0, 170>>
    /\ parse.loops = 3 /\ parse.pos = 6
    /\ parse.res = SUCCESS /\ parse.pkt = [set |-> TRUE, data |-> <<170, 170>>]

====
